---- MODULE Spec2Model ----
(***************************************************************************)
(* Random Triangulate (tn_randomTriangulateUI.py): the procedure           *)
(* random_triangulate_with_options and its helpers, run against a model of *)
(* the host scene (maya.cmds).  Positions are integers (fixed point), the  *)
(* process-wide generator of module random is a small congruential         *)
(* generator, and every host command is one observable event.              *)
(***************************************************************************)
EXTENDS Integers, Sequences, FiniteSets, TLC

VARIABLES
    selection,   \* host: the current selection list (cmds.ls(sl=True))
    pos,         \* host: object-space position of every vertex of every mesh
    topo,        \* host: faces and edges of every mesh
    hist,        \* host: number of construction-history nodes of every mesh
    undoDepth,   \* host: number of undo chunks currently open
    warnings,    \* host: number of cmds.warning calls
    log,         \* lines written by print
    view,        \* host: messages shown by cmds.inViewMessage
    opts,        \* the arguments of the call
    rng,         \* state of the process-wide generator of module random
    pc,          \* position of the procedure
    objs,        \* local: the resolved mesh transforms
    iters,       \* local: flip_iterations after max(1, int(..))
    mi,          \* local: index (from 1) of the mesh being processed
    boundary,    \* local: boundary vertex set of the current mesh
    vtx_count,   \* local
    vi,          \* local: vertex loop index i
    moved,       \* local
    edge_count,  \* local
    it,          \* local: flip iteration index
    e,           \* local: flip edge index
    flipped,     \* local
    raised,      \* the host call whose failure is propagating, or "none"
    calls,       \* observation: the state-changing host commands issued, in order
    draws,       \* observation: the values drawn from the generator, in order
    runNo,       \* 1 in the first invocation, 2 in a repeated one
    ref          \* observation: draws and calls of the first invocation

vars == <<selection, pos, topo, hist, undoDepth, warnings, log, view, opts, rng, pc,
          objs, iters, mi, boundary, vtx_count, vi, moved, edge_count, it, e,
          flipped, raised, calls, draws, runNo, ref>>

----------------------------------------------------------------------------
(* Bounds of the model *)

\* longest selection list
MaxSel == 2
\* largest flip_iterations argument
MaxIter == 2

Range(s) == {s[i] : i \in 1..Len(s)}
Max(a, b) == IF a >= b THEN a ELSE b

----------------------------------------------------------------------------
(* The scene: nodes of the host's dependency graph *)

Meshes == {"A", "B"}

\* cmds.objExists
objExists(n) ==
    n \in {"A", "AShape", "AOrig", "B", "BShape", "G", "GOrig", "cam", "camShape"}

\* cmds.nodeType
nodeType(n) ==
    CASE n \in {"A", "B", "G", "cam"} -> "transform"
      [] n \in {"AShape", "AOrig", "BShape", "GOrig"} -> "mesh"
      [] OTHER -> "camera"

\* cmds.listRelatives(s, parent=True, fullPath=True)
listParent(n) ==
    CASE n \in {"AShape", "AOrig"} -> <<"A">>
      [] n = "BShape" -> <<"B">>
      [] n = "GOrig" -> <<"G">>
      [] n = "camShape" -> <<"cam">>
      [] OTHER -> <<>>

\* cmds.listRelatives(s, shapes=True, fullPath=True, type="mesh")
listMeshShapes(n) ==
    CASE n = "A" -> <<"AShape", "AOrig">>
      [] n = "B" -> <<"BShape">>
      [] n = "G" -> <<"GOrig">>
      [] OTHER -> <<>>

\* cmds.getAttr(sh + ".intermediateObject")
intermediateObject(sh) == sh \in {"AOrig", "GOrig"}

\* A selection entry is a name split at its dots: <<"A">> is a node,
\* <<"B", "vtx[0]">> a component of B.
SelItems ==
    {<<"A">>, <<"AShape">>, <<"B", "vtx[0]">>, <<"GOrig">>, <<"camShape">>}

\* The entries through which the two meshes are usually picked.
CoreSelItems == {<<"A">>, <<"B", "vtx[0]">>}

\* Selection lists hold no entry twice.
RECURSIVE InjSeqs(_, _)
InjSeqs(S, n) ==
    IF n = 0 THEN {<<>>}
    ELSE LET shorter == InjSeqs(S, n - 1)
         IN  shorter \cup
             UNION {{Append(s, x) : x \in S \ Range(s)} :
                        s \in {t \in shorter : Len(t) = n - 1}}

----------------------------------------------------------------------------
(* _get_mesh_transforms_from_selection *)

\* lines 14-15: component -> node.  An entry without a dot is its own first
\* part, one with a dot is cut at the first dot.
StripComponent(s) == s[1]

\* lines 18-21: shape -> parent transform
ShapeToTransform(n) ==
    IF objExists(n) /\ nodeType(n) = "mesh" /\ listParent(n) # <<>>
    THEN listParent(n)[1]
    ELSE n

\* lines 26-28: the non-intermediate mesh shapes of a transform
VisibleShapes(n) ==
    SelectSeq(listMeshShapes(n), LAMBDA sh : ~intermediateObject(sh))

RECURSIVE ResolveFrom(_, _, _)
ResolveFrom(sel, k, out) ==
    IF k > Len(sel) THEN out
    ELSE LET s == ShapeToTransform(StripComponent(sel[k]))
         IN  IF ~objExists(s) \/ nodeType(s) # "transform"
             THEN ResolveFrom(sel, k + 1, out)
             ELSE IF VisibleShapes(s) # <<>> /\ s \notin Range(out)
                  THEN ResolveFrom(sel, k + 1, Append(out, s))
                  ELSE ResolveFrom(sel, k + 1, out)

GetMeshTransformsFromSelection(sel) == ResolveFrom(sel, 1, <<>>)

----------------------------------------------------------------------------
(* The meshes.  Vertex, edge and face indices start at 0, as in the host. *)

\* A: a square 1-2-3-4 around a centre vertex 0: two triangles and one quad.
\* B: a single triangle.
InitTopo ==
    [m \in Meshes |->
        IF m = "A"
        THEN [nv |-> 5,
              faces |-> << <<0, 1, 2>>, <<0, 2, 3>>, <<0, 3, 4, 1>> >>,
              edges |-> << {0, 1}, {1, 2}, {2, 0}, {2, 3}, {3, 0}, {3, 4}, {4, 1} >>]
        ELSE [nv |-> 3,
              faces |-> << <<0, 1, 2>> >>,
              edges |-> << {0, 1}, {1, 2}, {2, 0} >>]]

InitPos ==
    [m \in Meshes |->
        [v \in 0..(InitTopo[m].nv - 1) |->
            IF m = "A" THEN <<10 * v, 0, 20 * v>> ELSE <<0, 10 * v, 10 * v>>]]

\* translation of each transform: world = object + Translate
Translate == [m \in Meshes |-> IF m = "A" THEN <<100, 0, 0>> ELSE <<0, 200, 50>>]

InitHist == [m \in Meshes |-> IF m = "A" THEN 1 ELSE 0]

FaceEdges(f) == {{f[i], f[(i % Len(f)) + 1]} : i \in 1..Len(f)}

\* the faces (0-based indices, ascending) adjacent to edge index ei
RECURSIVE AdjFrom(_, _, _)
AdjFrom(t, ei, k) ==
    IF k > Len(t.faces) THEN <<>>
    ELSE IF t.edges[ei + 1] \in FaceEdges(t.faces[k])
         THEN <<k - 1>> \o AdjFrom(t, ei, k + 1)
         ELSE AdjFrom(t, ei, k + 1)

AdjFaces(t, ei) == AdjFrom(t, ei, 1)

----------------------------------------------------------------------------
(* Host queries and their text output *)

Num(n) == [isNum |-> TRUE, n |-> n, w |-> ""]
Word(w) == [isNum |-> FALSE, n |-> 0, w |-> w]
Nums(s) == [i \in 1..Len(s) |-> Num(s[i])]

\* cmds.polyInfo(edge, edgeToFace=True): "EDGE  5:  0  1"
polyInfoEdgeToFace(t, ei) ==
    << <<Word("EDGE"), Num(ei), Word(":")>> \o Nums(AdjFaces(t, ei)) >>

Lo(s) == CHOOSE x \in s : \A y \in s : x <= y
Hi(s) == CHOOSE x \in s : \A y \in s : x >= y

\* cmds.polyInfo(edge, edgeToVertex=True): "EDGE  5:  12  13  Hard"
polyInfoEdgeToVertex(t, ei) ==
    << <<Word("EDGE"), Num(ei), Word(":"),
         Num(Lo(t.edges[ei + 1])), Num(Hi(t.edges[ei + 1])), Word("Hard")>> >>

\* cmds.polyEvaluate(obj, edge=True) / (obj, vertex=True)
polyEvaluateEdge(t) == Len(t.edges)
polyEvaluateVertex(t) == t.nv

----------------------------------------------------------------------------
(* Parsing of the host's text, shared by _boundary_vertex_indices and      *)
(* _edge_to_faces                                                          *)

HasColon(line) == \E i \in 1..Len(line) : line[i] = Word(":")

FirstColon(line) == CHOOSE i \in 1..Len(line) :
                        line[i] = Word(":") /\ \A j \in 1..(i - 1) : line[j] # Word(":")

\* line.split(":", 1)[1].split(), keeping the tokens int() accepts
ParseFaceList(line) ==
    IF ~HasColon(line) THEN <<>>
    ELSE LET right == SubSeq(line, FirstColon(line) + 1, Len(line))
             ints == SelectSeq(right, LAMBDA tk : tk.isNum)
         IN  [i \in 1..Len(ints) |-> ints[i].n]

\* re.findall(r"\d+", vinfo[0])
FindAllDigits(line) ==
    LET ints == SelectSeq(line, LAMBDA tk : tk.isNum)
    IN  [i \in 1..Len(ints) |-> ints[i].n]

\* nums[1:]: the first number is the edge index, the rest are vertex indices
VertexNumbers(nums) == IF nums = <<>> THEN <<>> ELSE Tail(nums)

\* _edge_to_faces
EdgeToFaces(t, ei) ==
    LET info == polyInfoEdgeToFace(t, ei)
    IN  IF info = <<>> THEN <<>> ELSE ParseFaceList(info[1])

\* mutant: an edge between two faces taken for a boundary edge
IsBoundaryEdgeTwoFaces(faces) == Len(faces) = 2

\* line 59: a boundary edge has exactly one face
IsBoundaryEdge(faces) == Len(faces) = 1

\* _boundary_vertex_indices
BoundaryVertexIndices(t) ==
    UNION { LET info == polyInfoEdgeToFace(t, ei)
                vinfo == polyInfoEdgeToVertex(t, ei)
            IN  IF info = <<>> \/ ~HasColon(info[1]) THEN {}
                ELSE IF ~IsBoundaryEdge(ParseFaceList(info[1])) THEN {}
                ELSE IF vinfo = <<>> THEN {}
                ELSE Range(VertexNumbers(FindAllDigits(vinfo[1])))
          : ei \in 0..(polyEvaluateEdge(t) - 1) }

----------------------------------------------------------------------------
(* Host commands that change the scene *)

Add3(p, d) == <<p[1] + d[1], p[2] + d[2], p[3] + d[3]>>
Sub3(p, d) == <<p[1] - d[1], p[2] - d[2], p[3] - d[3]>>

\* cmds.xform(comp, q=True, os=True / ws=True, t=True)
xformQuery(P, m, v, os) == IF os THEN P[m][v] ELSE Add3(P[m][v], Translate[m])

\* cmds.xform(comp, os=True / ws=True, t=(..))
xformSet(P, m, v, os, val) ==
    [P EXCEPT ![m][v] = IF os THEN val ELSE Sub3(val, Translate[m])]

\* cmds.polyTriangulate(obj.f[:]): a quad a-b-c-d becomes a-b-c in place and
\* a-c-d appended, with the new diagonal edge a-c appended
RECURSIVE TriangulateFrom(_, _)
TriangulateFrom(t, k) ==
    IF k > Len(t.faces) THEN t
    ELSE LET f == t.faces[k]
         IN  IF Len(f) = 4
             THEN TriangulateFrom(
                      [t EXCEPT !.faces = Append([@ EXCEPT ![k] = <<f[1], f[2], f[3]>>],
                                                 <<f[1], f[3], f[4]>>),
                                !.edges = Append(@, {f[1], f[3]})],
                      k + 1)
             ELSE TriangulateFrom(t, k + 1)

polyTriangulate(t) == TriangulateFrom(t, 1)

\* the vertex of triangle f opposite to edge ed
Opposite(f, ed) == CHOOSE x \in Range(f) : x \notin ed

\* cmds.polyFlipEdge succeeds on an edge shared by two triangles whose other
\* diagonal is not an edge already; otherwise it raises
CanFlip(t, ei) ==
    LET adj == AdjFaces(t, ei)
    IN  /\ Len(adj) = 2
        /\ Len(t.faces[adj[1] + 1]) = 3
        /\ Len(t.faces[adj[2] + 1]) = 3
        /\ LET ed == t.edges[ei + 1]
               c == Opposite(t.faces[adj[1] + 1], ed)
               d == Opposite(t.faces[adj[2] + 1], ed)
           IN  c # d /\ {c, d} \notin Range(t.edges)

polyFlipEdge(t, ei) ==
    LET adj == AdjFaces(t, ei)
        ed == t.edges[ei + 1]
        a == Lo(ed)
        b == Hi(ed)
        c == Opposite(t.faces[adj[1] + 1], ed)
        d == Opposite(t.faces[adj[2] + 1], ed)
    IN  [t EXCEPT !.edges[ei + 1] = {c, d},
                  !.faces[adj[1] + 1] = <<c, d, a>>,
                  !.faces[adj[2] + 1] = <<d, c, b>>]

----------------------------------------------------------------------------
(* Module random: one process-wide generator.  Its state is a residue      *)
(* mod 16, random() returns the two high bits of the next state, a value   *)
(* in quarters: 0, 1/4, 2/4, 3/4.                                          *)

\* mutant: the generator is not seeded again
SeedKept(state, seed) == state

\* random.seed(int(seed))
Seed(state, seed) == seed % 16

NextRng(state) == (5 * state + 3) % 16

\* random.random(), in quarters
RandomQ(state) == NextRng(state) \div 4

\* random.uniform(a, b) == a + (b - a) * random()
Uniform(state, a, b) == a + ((b - a) * RandomQ(state)) \div 4

\* mutant: the lock of the axis is not looked at
AxisDeltaUnlocked(lock, state, jitter) == Uniform(state, -jitter, jitter)

\* lines 137-139: one axis
AxisDelta(lock, state, jitter) == IF lock THEN 0 ELSE Uniform(state, -jitter, jitter)
AxisState(lock, state) == IF lock THEN state ELSE NextRng(state)
AxisDraw(lock, state) == IF lock THEN <<>> ELSE <<RandomQ(state)>>

----------------------------------------------------------------------------
(* Arguments of random_triangulate_with_options (lines 89-100).  Lengths   *)
(* are in model units; a probability is in quarters.                       *)

Jitters == {0, 2}
Seeds == {1, 2}
AxisLocks == {<<x, y, z>> : x \in BOOLEAN, y \in BOOLEAN, z \in BOOLEAN}
FlipProbs == {2}
RngStates == {0, 11}

Options ==
    [jitter_amount : Jitters, seed : Seeds, lock_axes : AxisLocks,
     lock_boundary : BOOLEAN, do_triangulate : BOOLEAN, do_flip : BOOLEAN,
     flip_probability : FlipProbs, flip_iterations : 0..MaxIter,
     keep_history : BOOLEAN, use_object_space : BOOLEAN]

\* the arguments left at one value while the selection is varied
CoreOptions ==
    {o \in Options : /\ o.jitter_amount = 2 /\ o.seed = 1
                     /\ o.lock_axes = <<FALSE, TRUE, FALSE>>
                     /\ o.flip_iterations = 1 /\ ~o.use_object_space}

Inputs ==
    (InjSeqs(SelItems, MaxSel) \X CoreOptions)
        \cup (InjSeqs(CoreSelItems, MaxSel) \X Options)

----------------------------------------------------------------------------
(* Observed commands *)

Zero3 == <<0, 0, 0>>

Event(op, obj) ==
    [op |-> op, obj |-> obj, i |-> 0, ok |-> TRUE, nf |-> 0, rd |-> Zero3, wr |-> Zero3]

WriteEvent(obj, i, rd, wr) == [Event("xform", obj) EXCEPT !.i = i, !.rd = rd, !.wr = wr]

FlipEvent(obj, ei, nf, ok) ==
    [Event("polyFlipEdge", obj) EXCEPT !.i = ei, !.nf = nf, !.ok = ok]

\* line 177: the summary text
Summary(obj, mv, doFlip, fl) ==
    [obj |-> obj, moved |-> mv, hasFlipped |-> doFlip, flipped |-> IF doFlip THEN fl ELSE 0]

----------------------------------------------------------------------------
(* random_triangulate_with_options, one step per host command *)

\* mutant: the early return is never taken
NoObjsNever(o) == FALSE

\* line 106: if not objs
NoObjs(o) == o = <<>>

\* mutant: the flip passes run before the triangulation
PhaseAfterFlipFirst(p) ==
    CASE p = "vtx" -> "flip0"
      [] p = "flip" -> "tri"
      [] p = "tri" -> "hist"
      [] OTHER -> "print"

\* the order of the phases of one mesh (lines 124, 154, 159, 174, 177)
PhaseAfter(p) ==
    CASE p = "vtx" -> "tri"
      [] p = "tri" -> "flip0"
      [] p = "flip" -> "hist"
      [] OTHER -> "print"

\* mutant: the close is at the end of the try body, not in a finally block
ExcTargetNoFinally == "done"

\* mutant: a broad except around the body of the mesh loop
ExcTargetSwallowed == "print"

\* lines 118, 181: a host call that raises leaves through the finally block
ExcTarget == "finally"

\* mutant: the position is always read in world space
ReadSpaceWorld(os) == FALSE

\* lines 131-134: the space the position is read in
ReadSpace(os) == os

\* mutant: any edge with a face is flipped
FlippableAnyFace(faces) == Len(faces) >= 1

\* line 166: if len(faces) != 2: continue
Flippable(faces) == Len(faces) = 2

\* mutant: flipped += 1 after the try statement
FlipCountedAlways(ok) == TRUE

\* lines 168-172: flipped += 1 is inside the try, after the call
FlipCounted(ok) == ok

Init ==
    /\ \E in \in Inputs : selection = in[1] /\ opts = in[2]
    /\ rng \in RngStates
    /\ pos = InitPos /\ topo = InitTopo /\ hist = InitHist
    /\ undoDepth = 0 /\ warnings = 0 /\ log = <<>> /\ view = <<>>
    /\ pc = "start" /\ objs = <<>> /\ iters = 0 /\ mi = 0
    /\ boundary = {} /\ vtx_count = 0 /\ vi = 0 /\ moved = 0
    /\ edge_count = 0 /\ it = 0 /\ e = 0 /\ flipped = 0
    /\ raised = "none" /\ calls = <<>> /\ draws = <<>>
    /\ runNo = 1 /\ ref = [draws |-> <<>>, calls |-> <<>>]

scene == <<pos, topo, hist>>
locals == <<boundary, vtx_count, vi, moved, edge_count, it, e, flipped>>
fixed == <<selection, opts, runNo, ref>>

\* lines 105-115
Start ==
    /\ pc = "start"
    /\ objs' = GetMeshTransformsFromSelection(selection)
    /\ IF NoObjs(objs')
       THEN /\ warnings' = warnings + 1
            /\ pc' = "done"
            /\ UNCHANGED <<iters, rng>>
       ELSE /\ iters' = Max(1, opts.flip_iterations)
            /\ rng' = Seed(rng, opts.seed)
            /\ pc' = "open"
            /\ UNCHANGED warnings
    /\ UNCHANGED <<scene, locals, fixed, undoDepth, log, view, mi, raised, calls, draws>>

\* line 117
OpenChunk ==
    /\ pc = "open"
    /\ undoDepth' = undoDepth + 1
    /\ calls' = Append(calls, Event("openChunk", ""))
    /\ mi' = 1
    /\ pc' = "mesh"
    /\ UNCHANGED <<scene, locals, fixed, warnings, log, view, rng, objs, iters, raised, draws>>

\* lines 119-123
MeshBegin ==
    /\ pc = "mesh"
    /\ IF mi > Len(objs)
       THEN /\ pc' = "finally"
            /\ UNCHANGED <<boundary, vtx_count, vi, moved, raised>>
       ELSE \E outcome \in {"ok", "polyInfo", "polyEvaluate"} :
              /\ outcome = "polyInfo" => opts.lock_boundary
              /\ IF outcome = "ok"
                 THEN /\ boundary' = IF opts.lock_boundary
                                     THEN BoundaryVertexIndices(topo[objs[mi]])
                                     ELSE {}
                      /\ vtx_count' = polyEvaluateVertex(topo[objs[mi]])
                      /\ moved' = 0
                      /\ vi' = 0
                      /\ pc' = IF vtx_count' = 0 THEN PhaseAfter("vtx") ELSE "vtx"
                      /\ UNCHANGED raised
                 ELSE /\ raised' = outcome
                      /\ pc' = ExcTarget
                      /\ UNCHANGED <<boundary, vtx_count, vi, moved>>
    /\ UNCHANGED <<scene, fixed, undoDepth, warnings, log, view, rng, objs, iters, mi,
                   edge_count, it, e, flipped, calls, draws>>

\* lines 124-151, one vertex
Vertex ==
    /\ pc = "vtx"
    /\ LET m == objs[mi]
           os == opts.use_object_space
           lk == opts.lock_axes
           j == opts.jitter_amount
           p == xformQuery(pos, m, vi, ReadSpace(os))
           s1 == AxisState(lk[1], rng)
           s2 == AxisState(lk[2], s1)
           s3 == AxisState(lk[3], s2)
           d == <<AxisDelta(lk[1], rng, j), AxisDelta(lk[2], s1, j), AxisDelta(lk[3], s2, j)>>
           drawn == AxisDraw(lk[1], rng) \o AxisDraw(lk[2], s1) \o AxisDraw(lk[3], s2)
           nextpc == IF vi + 1 < vtx_count THEN "vtx" ELSE PhaseAfter("vtx")
       IN  IF vi \in boundary
           THEN /\ vi' = vi + 1
                /\ pc' = nextpc
                /\ UNCHANGED <<pos, rng, moved, raised, calls, draws>>
           ELSE \E outcome \in {"ok", "query", "write"} :
                  /\ outcome = "write" => d # Zero3
                  /\ IF outcome = "query"
                     THEN /\ raised' = "xform"
                          /\ pc' = ExcTarget
                          /\ UNCHANGED <<pos, rng, moved, vi, calls, draws>>
                     ELSE /\ rng' = s3
                          /\ draws' = draws \o drawn
                          /\ IF outcome = "write"
                             THEN /\ raised' = "xform"
                                  /\ pc' = ExcTarget
                                  /\ UNCHANGED <<pos, moved, vi, calls>>
                             ELSE /\ vi' = vi + 1
                                  /\ pc' = nextpc
                                  /\ UNCHANGED raised
                                  /\ IF d = Zero3
                                     THEN UNCHANGED <<pos, moved, calls>>
                                     ELSE /\ pos' = xformSet(pos, m, vi, os, Add3(p, d))
                                          /\ moved' = moved + 1
                                          /\ calls' = Append(calls,
                                                 WriteEvent(m, vi, p, Add3(p, d)))
    /\ UNCHANGED <<topo, hist, fixed, undoDepth, warnings, log, view, objs, iters, mi,
                   boundary, vtx_count, edge_count, it, e, flipped>>

\* lines 153-155
Triangulate ==
    /\ pc = "tri"
    /\ IF ~opts.do_triangulate
       THEN /\ pc' = PhaseAfter("tri")
            /\ UNCHANGED <<topo, hist, raised, calls>>
       ELSE \E fails \in BOOLEAN :
              IF fails
              THEN /\ raised' = "polyTriangulate"
                   /\ pc' = ExcTarget
                   /\ UNCHANGED <<topo, hist, calls>>
              ELSE /\ topo' = [topo EXCEPT ![objs[mi]] = polyTriangulate(@)]
                   /\ hist' = [hist EXCEPT ![objs[mi]] =
                                   IF opts.keep_history THEN @ + 1 ELSE @]
                   /\ calls' = Append(calls, Event("polyTriangulate", objs[mi]))
                   /\ pc' = PhaseAfter("tri")
                   /\ UNCHANGED raised
    /\ UNCHANGED <<pos, locals, fixed, undoDepth, warnings, log, view, rng, objs, iters,
                   mi, draws>>

\* lines 158-161
FlipBegin ==
    /\ pc = "flip0"
    /\ flipped' = 0
    /\ IF ~opts.do_flip
       THEN /\ pc' = PhaseAfter("flip")
            /\ UNCHANGED <<edge_count, it, e, raised>>
       ELSE \E fails \in BOOLEAN :
              IF fails
              THEN /\ raised' = "polyEvaluate"
                   /\ pc' = ExcTarget
                   /\ UNCHANGED <<edge_count, it, e>>
              ELSE /\ edge_count' = polyEvaluateEdge(topo[objs[mi]])
                   /\ it' = 0
                   /\ e' = 0
                   /\ pc' = IF edge_count' = 0 THEN PhaseAfter("flip") ELSE "flip"
                   /\ UNCHANGED raised
    /\ UNCHANGED <<scene, fixed, undoDepth, warnings, log, view, rng, objs, iters, mi,
                   boundary, vtx_count, vi, moved, calls, draws>>

\* lines 162-172, one edge of one pass
FlipEdge ==
    /\ pc = "flip"
    /\ rng' = NextRng(rng)
    /\ draws' = Append(draws, RandomQ(rng))
    /\ LET m == objs[mi]
           lastOfPass == e + 1 = edge_count
           advance == /\ e' = IF lastOfPass THEN 0 ELSE e + 1
                      /\ it' = IF lastOfPass THEN it + 1 ELSE it
                      /\ pc' = IF lastOfPass /\ it + 1 = iters
                               THEN PhaseAfter("flip") ELSE "flip"
                      /\ UNCHANGED raised
           faces == EdgeToFaces(topo[m], e)
           ok == CanFlip(topo[m], e)
       IN  IF RandomQ(rng) > opts.flip_probability
           THEN advance /\ UNCHANGED <<topo, hist, flipped, calls>>
           ELSE \E fails \in BOOLEAN :
                  IF fails
                  THEN /\ raised' = "polyInfo"
                       /\ pc' = ExcTarget
                       /\ UNCHANGED <<topo, hist, flipped, calls, e, it>>
                  ELSE /\ advance
                       /\ IF ~Flippable(faces)
                          THEN UNCHANGED <<topo, hist, flipped, calls>>
                          ELSE /\ calls' = Append(calls,
                                      FlipEvent(m, e, Len(AdjFaces(topo[m], e)), ok))
                               /\ flipped' = IF FlipCounted(ok) THEN flipped + 1 ELSE flipped
                               /\ topo' = IF ok THEN [topo EXCEPT ![m] = polyFlipEdge(@, e)]
                                          ELSE topo
                               /\ hist' = IF ok /\ opts.keep_history
                                          THEN [hist EXCEPT ![m] = @ + 1] ELSE hist
    /\ UNCHANGED <<pos, fixed, undoDepth, warnings, log, view, objs, iters, mi,
                   boundary, vtx_count, vi, moved, edge_count>>

\* lines 174-175
DeleteHistory ==
    /\ pc = "hist"
    /\ IF opts.keep_history
       THEN /\ pc' = PhaseAfter("hist")
            /\ UNCHANGED <<hist, raised, calls>>
       ELSE \E fails \in BOOLEAN :
              IF fails
              THEN /\ raised' = "delete"
                   /\ pc' = ExcTarget
                   /\ UNCHANGED <<hist, calls>>
              ELSE /\ hist' = [hist EXCEPT ![objs[mi]] = 0]
                   /\ calls' = Append(calls, Event("delete", objs[mi]))
                   /\ pc' = PhaseAfter("hist")
                   /\ UNCHANGED raised
    /\ UNCHANGED <<pos, topo, locals, fixed, undoDepth, warnings, log, view, rng, objs,
                   iters, mi, draws>>

\* lines 177-178
PrintSummary ==
    /\ pc = "print"
    /\ log' = Append(log, Summary(objs[mi], moved, opts.do_flip, flipped))
    /\ calls' = Append(calls, Event("print", objs[mi]))
    /\ pc' = "msg"
    /\ UNCHANGED <<scene, locals, fixed, undoDepth, warnings, view, rng, objs, iters,
                   mi, raised, draws>>

\* line 179, and on to the next mesh
InViewMessage ==
    /\ pc = "msg"
    /\ \E fails \in BOOLEAN :
         IF fails
         THEN /\ raised' = "inViewMessage"
              /\ pc' = ExcTarget
              /\ UNCHANGED <<view, calls, mi>>
         ELSE /\ view' = Append(view, Summary(objs[mi], moved, opts.do_flip, flipped))
              /\ calls' = Append(calls, Event("inViewMessage", objs[mi]))
              /\ mi' = mi + 1
              /\ pc' = "mesh"
              /\ UNCHANGED raised
    /\ UNCHANGED <<scene, locals, fixed, undoDepth, warnings, log, rng, objs, iters, draws>>

\* lines 181-182
CloseChunk ==
    /\ pc = "finally"
    /\ undoDepth' = undoDepth - 1
    /\ calls' = Append(calls, Event("closeChunk", ""))
    /\ pc' = "done"
    /\ UNCHANGED <<scene, locals, fixed, warnings, log, view, rng, objs, iters, mi,
                   raised, draws>>

Next ==
    \/ Start
    \/ OpenChunk
    \/ MeshBegin
    \/ Vertex
    \/ Triangulate
    \/ FlipBegin
    \/ FlipEdge
    \/ DeleteHistory
    \/ PrintSummary
    \/ InViewMessage
    \/ CloseChunk

Spec == Init /\ [][Next]_vars

\* The user undoes the one chunk of a finished call, which restores the
\* scene, and runs the procedure again with the same selection and
\* arguments.  The generator is process-wide and is not restored.
UndoAndRunAgain ==
    /\ pc = "done"
    /\ raised = "none"
    /\ runNo = 1
    /\ runNo' = 2
    /\ ref' = [draws |-> draws, calls |-> calls]
    /\ pos' = InitPos /\ topo' = InitTopo /\ hist' = InitHist
    /\ pc' = "start" /\ objs' = <<>> /\ iters' = 0 /\ mi' = 0
    /\ boundary' = {} /\ vtx_count' = 0 /\ vi' = 0 /\ moved' = 0
    /\ edge_count' = 0 /\ it' = 0 /\ e' = 0 /\ flipped' = 0
    /\ calls' = <<>> /\ draws' = <<>>
    /\ UNCHANGED <<selection, opts, rng, undoDepth, warnings, log, view, raised>>

NextRepeat == Next \/ UndoAndRunAgain

SpecRepeat == Init /\ [][NextRepeat]_vars

----------------------------------------------------------------------------
(* Vocabulary of the properties *)

Idx(s) == 1..Len(s)

IsPrefix(s, t) == Len(s) <= Len(t) /\ \A k \in Idx(s) : s[k] = t[k]

Verts(m) == 0..(InitTopo[m].nv - 1)

\* v is an endpoint of an edge of t that lies on exactly one face of t
IsBoundaryVertex(t, v) ==
    \E i \in Idx(t.edges) :
        /\ v \in t.edges[i]
        /\ Cardinality({k \in Idx(t.faces) : t.edges[i] \in FaceEdges(t.faces[k])}) = 1

Writes(s, m) == {k \in Idx(s) : s[k].op = "xform" /\ s[k].obj = m}

Abs(x) == IF x < 0 THEN -x ELSE x

Returned == pc = "done" /\ raised = "none"

----------------------------------------------------------------------------
(* C1 *)

\* C1: with lock_boundary set, no vertex that is an endpoint of an edge with
\* exactly one face (in the mesh as it stands when its processing begins) is
\* ever written, and its position stays the one it had before the run.
C1_BoundaryVerticesKept ==
    opts.lock_boundary =>
        \A m \in Meshes : \A v \in Verts(m) :
            IsBoundaryVertex(InitTopo[m], v) =>
                /\ pos[m][v] = InitPos[m][v]
                /\ \A k \in Writes(calls, m) : calls[k].i # v

\* an inner vertex was moved, in a finished run over both meshes, with the lock on
C1_Witness ==
    /\ Returned /\ opts.lock_boundary /\ Len(objs) = 2
    /\ pos["A"][0] # InitPos["A"][0]
    /\ \A v \in 1..4 : IsBoundaryVertex(InitTopo["A"], v)

----------------------------------------------------------------------------
(* C2 *)

\* C2: with all three axes locked no vertex position is written, for any
\* jitter and seed, and every reported moved_vtx is 0.
C2_AllAxesLocked ==
    opts.lock_axes = <<TRUE, TRUE, TRUE>> =>
        /\ pos = InitPos
        /\ \A m \in Meshes : Writes(calls, m) = {}
        /\ moved = 0
        /\ \A k \in Idx(log) : log[k].moved = 0
        /\ \A k \in Idx(view) : view[k].moved = 0

\* a finished run over both meshes with all axes locked, a jitter and no
\* boundary lock: every vertex went through the loop
C2_Witness ==
    /\ Returned /\ opts.lock_axes = <<TRUE, TRUE, TRUE>>
    /\ opts.jitter_amount > 0 /\ ~opts.lock_boundary
    /\ Len(view) = 2

----------------------------------------------------------------------------
(* C3 *)

\* C3: polyFlipEdge is only ever called on an edge that has exactly two
\* faces at the moment of the call, whatever was flipped before.
C3_FlipOnlyInteriorEdges ==
    \A k \in Idx(calls) : calls[k].op = "polyFlipEdge" => calls[k].nf = 2

\* a flip call made after an earlier flip had changed the same mesh
C3_Witness ==
    \E k1, k2 \in Idx(calls) :
        /\ k1 < k2
        /\ calls[k1].op = "polyFlipEdge" /\ calls[k1].ok
        /\ calls[k2].op = "polyFlipEdge" /\ calls[k2].obj = calls[k1].obj

----------------------------------------------------------------------------
(* C4 *)

\* the transform a selection entry stands for
OwnerOf(entry) ==
    IF nodeType(entry[1]) = "transform" THEN <<entry[1]>> ELSE listParent(entry[1])

\* no entry of the selection stands for a transform with a non-intermediate
\* mesh shape
ResolvesToNothing ==
    \A k \in Idx(selection) :
        \A t \in Range(OwnerOf(selection[k])) :
            nodeType(t) = "mesh" \/
            \A sh \in Range(listMeshShapes(t)) : intermediateObject(sh)

\* C4: when the selection resolves to no mesh transform the procedure warns
\* once and returns normally without any scene change, host command or undo
\* chunk.
C4_EmptySelection ==
    (ResolvesToNothing /\ pc # "start") =>
        /\ Returned
        /\ warnings = runNo
        /\ calls = <<>> /\ log = <<>> /\ view = <<>>
        /\ pos = InitPos /\ topo = InitTopo /\ hist = InitHist
        /\ undoDepth = 0

\* the call has returned on a selection of an intermediate shape and a camera
C4_Witness ==
    /\ pc = "done" /\ warnings = 1
    /\ selection = << <<"GOrig">>, <<"camShape">> >>

----------------------------------------------------------------------------
(* C5 *)

Deltas(s) ==
    LET w == SelectSeq(s, LAMBDA c : c.op = "xform")
    IN  [k \in Idx(w) |-> <<w[k].obj, w[k].i, Sub3(w[k].wr, w[k].rd)>>]

FlipAttempts(s) ==
    LET f == SelectSeq(s, LAMBDA c : c.op = "polyFlipEdge")
    IN  [k \in Idx(f) |-> <<f[k].obj, f[k].i>>]

\* C5: a second invocation with the same seed, selection, starting geometry
\* and arguments draws the same values in the same order, applies the same
\* per-vertex deltas and attempts flips on the same edges as the first,
\* whatever state the first left the process-wide generator in.
C5_SameSeedSameRun ==
    runNo = 2 =>
        /\ IsPrefix(draws, ref.draws)
        /\ IsPrefix(Deltas(calls), Deltas(ref.calls))
        /\ IsPrefix(FlipAttempts(calls), FlipAttempts(ref.calls))
        /\ Returned => (draws = ref.draws /\ calls = ref.calls)

\* the second invocation has returned after moving vertices and attempting
\* flips, having started from a generator state other than the first one's
C5_Witness ==
    /\ runNo = 2 /\ Returned
    /\ Deltas(calls) # <<>> /\ FlipAttempts(calls) # <<>>
    /\ Len(ref.draws) % 16 # 0

----------------------------------------------------------------------------
(* C6 *)

IsOpen(c) == c.op = "openChunk"
IsClose(c) == c.op = "closeChunk"
NumOpened == Cardinality({k \in Idx(calls) : IsOpen(calls[k])})
NumClosed == Cardinality({k \in Idx(calls) : IsClose(calls[k])})

\* C6: a call with a non-empty resolved selection opens exactly one undo
\* chunk, before its first scene change, and closes it exactly once, after
\* the last one, on every way out, a raising host call included; every
\* scene change happens while the chunk is open.
C6_OneUndoChunk ==
    /\ [](/\ NumOpened <= 1 /\ NumClosed <= 1
          /\ calls # <<>> => IsOpen(calls[1])
          /\ \A k \in Idx(calls) : IsClose(calls[k]) => (k = Len(calls) /\ pc = "done")
          /\ undoDepth = NumOpened - NumClosed
          /\ (pc = "done" /\ ~NoObjs(objs)) =>
                 /\ NumOpened = 1 /\ NumClosed = 1
                 /\ undoDepth = 0)
    /\ [][(scene' # scene \/ (Len(calls') > Len(calls) /\ pc \notin {"open", "finally"}))
             => (undoDepth = 1 /\ undoDepth' = 1)]_vars

\* the call ended by a raising host call after it had moved a vertex, and
\* the chunk is closed
C6_Witness ==
    /\ pc = "done" /\ raised # "none" /\ undoDepth = 0
    /\ \E m \in Meshes : Writes(calls, m) # {}
    /\ IsClose(calls[Len(calls)])

----------------------------------------------------------------------------
(* C7 *)

Rank(c) ==
    CASE c.op = "xform" -> 1
      [] c.op = "polyTriangulate" -> 2
      [] c.op = "polyFlipEdge" -> 3
      [] c.op = "delete" -> 4
      [] c.op = "print" -> 5
      [] OTHER -> 6

MeshNo(c) == CHOOSE k \in Idx(objs) : objs[k] = c.obj

OnMesh(c) == ~IsOpen(c) /\ ~IsClose(c)

Has(m, op) == \E k \in Idx(calls) : calls[k].op = op /\ calls[k].obj = m

\* C7: per mesh the commands come in the order vertex writes, triangulate
\* (only with do_triangulate), flips (only with do_flip), history deletion
\* (only without keep_history), summary; meshes follow each other in selection
\* order without interleaving.  Without do_flip no flip is attempted and the
\* summary has no flipped count, and the vertex loop changes no topology.
C7_PhaseOrder ==
    /\ \A k \in Idx(calls) : OnMesh(calls[k]) => calls[k].obj \in Range(objs)
    /\ \A k \in 1..(Len(calls) - 1) :
          (OnMesh(calls[k]) /\ OnMesh(calls[k + 1])) =>
              \/ /\ MeshNo(calls[k]) + 1 = MeshNo(calls[k + 1])
                 /\ Rank(calls[k]) = 6
              \/ /\ MeshNo(calls[k]) = MeshNo(calls[k + 1])
                 /\ \/ Rank(calls[k]) < Rank(calls[k + 1])
                    \/ /\ Rank(calls[k]) = Rank(calls[k + 1])
                       /\ Rank(calls[k]) \in {1, 3}
    /\ \A k \in Idx(view) :
          /\ view[k].obj = objs[k] /\ log[k] = view[k]
          /\ Has(objs[k], "polyTriangulate") <=> opts.do_triangulate
          /\ Has(objs[k], "delete") <=> ~opts.keep_history
          /\ Has(objs[k], "print")
    /\ \A m \in Meshes :
          /\ Has(m, "polyTriangulate") => opts.do_triangulate
          /\ Has(m, "polyFlipEdge") => opts.do_flip
          /\ Has(m, "delete") => ~opts.keep_history
    /\ \A k \in Idx(log) : log[k].hasFlipped <=> opts.do_flip
    /\ ~opts.do_flip => flipped = 0
    /\ pc = "vtx" =>
          /\ topo[objs[mi]] = InitTopo[objs[mi]]
          /\ \A k \in Idx(calls) : calls[k].obj = objs[mi] => calls[k].op = "xform"

\* a finished run over B then A in which every phase issued a command
C7_Witness ==
    /\ Returned /\ objs = <<"B", "A">>
    /\ Has("A", "xform") /\ Has("A", "polyTriangulate") /\ Has("A", "polyFlipEdge")
    /\ Has("A", "delete") /\ Has("B", "xform") /\ Len(view) = 2

----------------------------------------------------------------------------
(* C8 *)

FlipsDone(m) ==
    Cardinality({k \in Idx(calls) :
        calls[k].op = "polyFlipEdge" /\ calls[k].obj = m /\ calls[k].ok})

FailedFlipStep ==
    /\ Len(calls') = Len(calls) + 1
    /\ calls'[Len(calls')].op = "polyFlipEdge"
    /\ ~calls'[Len(calls')].ok

\* C8: a failing polyFlipEdge is swallowed: nothing is raised, the counter
\* stays, the pass goes on with the next edge, the remaining passes and
\* meshes are processed and the call returns normally; the flipped count
\* reported is the number of flip calls that succeeded.
C8_FlipFailureSwallowed ==
    /\ [](/\ raised # "polyFlipEdge"
          /\ \A k \in Idx(log) : log[k].hasFlipped => log[k].flipped = FlipsDone(log[k].obj)
          /\ (pc \in {"flip", "hist"} /\ opts.do_flip) => flipped = FlipsDone(objs[mi])
          /\ (Returned /\ ~NoObjs(objs)) => Len(view) = Len(objs))
    /\ [][FailedFlipStep =>
             /\ raised' = "none" /\ flipped' = flipped /\ scene' = scene
             /\ IF e + 1 < edge_count
                THEN pc' = "flip" /\ e' = e + 1 /\ it' = it
                ELSE IF it + 1 < iters
                     THEN pc' = "flip" /\ e' = 0 /\ it' = it + 1
                     ELSE pc' = "hist"]_vars

\* the call returned after a failed flip on A that was followed by a
\* successful one and by the processing of B
C8_Witness ==
    /\ Returned /\ objs = <<"A", "B">> /\ Len(view) = 2
    /\ \E k1, k2 \in Idx(calls) :
          /\ k1 < k2
          /\ calls[k1].op = "polyFlipEdge" /\ ~calls[k1].ok
          /\ calls[k2].op = "polyFlipEdge" /\ calls[k2].ok
    /\ log[1].flipped = FlipsDone("A") /\ log[1].flipped > 0

----------------------------------------------------------------------------
(* C9 *)

Summarised(s) == {s[k].obj : k \in Idx(s)}

AbortedCleanly ==
    /\ pc \in {"finally", "done"}
    /\ objs[mi] \notin Summarised(view)
    /\ \A k \in Idx(calls) : OnMesh(calls[k]) => MeshNo(calls[k]) <= mi
    /\ pc = "done" => (undoDepth = 0 /\ IsClose(calls[Len(calls)]))

FrozenAfterRaise ==
    raised # "none" =>
        /\ scene' = scene /\ log' = log /\ view' = view /\ raised' = raised
        /\ (calls' = calls \/ calls' = Append(calls, Event("closeChunk", "")))

\* C9 as stated: a raising host call other than polyFlipEdge ends the mesh
\* with no summary at all emitted for it.
C9_NoSummaryAfterRaise ==
    raised # "none" => (AbortedCleanly /\ objs[mi] \notin Summarised(log))

\* C9 amended: a raising host call other than polyFlipEdge propagates: no
\* further scene change or command on this or a later mesh, what was changed
\* stays, the chunk is closed, and no viewport summary is shown for the mesh;
\* no log line is printed for it either unless the raising call is
\* inViewMessage itself, which runs after print.
C9_RaisePropagates ==
    /\ [](raised # "none" =>
            /\ AbortedCleanly
            /\ raised # "inViewMessage" => objs[mi] \notin Summarised(log))
    /\ [][FrozenAfterRaise]_vars

\* triangulate raised on the first of two meshes after a vertex was moved;
\* the move is still there and the second mesh is untouched
C9_Witness ==
    /\ pc = "done" /\ raised = "polyTriangulate"
    /\ Len(objs) = 2 /\ mi = 1
    /\ pos[objs[1]] # InitPos[objs[1]]
    /\ pos[objs[2]] = InitPos[objs[2]]
    /\ log = <<>>

----------------------------------------------------------------------------
(* C10 *)

InSpace(P, m, v) == xformQuery(P, m, v, opts.use_object_space)

DeltaOk(d) ==
    /\ \A a \in 1..3 : opts.lock_axes[a] => d[a] = 0
    /\ \A a \in 1..3 : Abs(d[a]) <= opts.jitter_amount

MovedVerts(m) == {v \in Verts(m) : pos[m][v] # InitPos[m][v]}

\* C10: a vertex outside the boundary set is written, in the space it was
\* read in, at its read position plus a delta that is zero on every locked
\* axis and within [-jitter, jitter] on the others; a vertex with an all-zero
\* delta is neither written nor counted, so moved_vtx is the number of
\* position writes on the mesh (0 when jitter is 0).
C10_JitterDelta ==
    /\ \A k \in Idx(calls) : calls[k].op = "xform" =>
          LET c == calls[k]
          IN  /\ opts.lock_boundary => ~IsBoundaryVertex(InitTopo[c.obj], c.i)
              /\ c.rd = InSpace(InitPos, c.obj, c.i)
              /\ c.wr = InSpace(pos, c.obj, c.i)
              /\ DeltaOk(Sub3(c.wr, c.rd))
              /\ c.wr # c.rd
              /\ \A k2 \in Writes(calls, c.obj) : calls[k2].i = c.i => k2 = k
    /\ \A m \in Meshes : \A v \in Verts(m) :
          /\ DeltaOk(Sub3(InSpace(pos, m, v), InSpace(InitPos, m, v)))
          /\ v \in MovedVerts(m) => \E k \in Writes(calls, m) : calls[k].i = v
    /\ \A k \in Idx(log) :
          /\ log[k].moved = Cardinality(Writes(calls, log[k].obj))
          /\ log[k].moved = Cardinality(MovedVerts(log[k].obj))
          /\ opts.jitter_amount = 0 => log[k].moved = 0
    /\ pc = "vtx" => moved = Cardinality(Writes(calls, objs[mi]))

\* a finished object-space run with only Y locked and no boundary lock in
\* which some vertex drew an all-zero delta and was skipped while others
\* were written
C10_Witness ==
    /\ Returned /\ opts.use_object_space /\ ~opts.lock_boundary
    /\ opts.lock_axes = <<FALSE, TRUE, FALSE>>
    /\ Len(log) >= 1 /\ log[1].moved > 0
    /\ log[1].moved < InitTopo[log[1].obj].nv

====
